---- MODULE Spec2Model ----
(***************************************************************************)
(* A model of the chess rules core in src/src/rules.h and src/src/rules.cpp *)
(* (namespace chess: GameState, NormalMove, PromotionMove, CastlingMove).   *)
(*                                                                         *)
(* Representation.  A `bitmap` (unsigned long long) is the set of its set  *)
(* bit indices, a subset of 0..63: | is \cup, & is \cap, ^ is the symmetric *)
(* difference.  A `square` is an Int.                                       *)
(*                                                                         *)
(* Undefined behaviour.  The source reads uninitialised locals (span_mask   *)
(* in span_pawn, span_jumping, span_sliding), leaves get_attack_map without *)
(* a return statement, and shifts 1ULL by counts outside 0..63.  Each is a  *)
(* nondeterministic choice: every operator that can meet one takes a record *)
(* u \in Undefined, u.G the value of an uninitialised bitmap, u.A the       *)
(* outcome of the missing return, u.S the outcome of an out-of-range shift, *)
(* chosen afresh by each action.  The build is the release build (NDEBUG):  *)
(* an `assert` that fails ends the process in a debug build, so its         *)
(* condition is kept as a predicate and not as a guard.                     *)
(*                                                                         *)
(* Bit-scan loops.  get_valid_moves and get_attack_map walk a bitmap with   *)
(*     while (m > 0) { s = get_lowest_bit(m); ...; m ^= ...; }              *)
(* get_lowest_bit (below, as written) yields index + 1, and line 187 clears *)
(* `finish`, not `1ULL << finish`; run as written the walk of a non-empty   *)
(* bitmap does not end.  The walk as written is the specification SpecScan  *)
(* (ScanStart, ScanOuter, ScanInner).  In the position-level specification  *)
(* Spec the loop bodies are as written and each loop visits the set bits of *)
(* the bitmap it walks, once each.                                          *)
(***************************************************************************)
EXTENDS Integers, FiniteSets, Sequences, TLC

\* rules.h: enum Player, enum Piece, enum CastlingVariant, INVALID_SQUARE
WHITE == 0
BLACK == 1
KING == 0
QUEEN == 1
ROOK == 2
BISHOP == 3
KNIGHT == 4
PAWN == 5
KING_SIDE == 0
QUEEN_SIDE == 1
INVALID_SQUARE == -1

Players == {WHITE, BLACK}
Pieces == KING..PAWN
Squares == 0..63

(***************************************************************************)
(* Bounds of the model.                                                    *)
(***************************************************************************)
\* apply calls along one behaviour from a scenario position
MaxPlies == 2
\* number of non-zero values an uninitialised bitmap may take
MaxGarbage == 2
\* highest bit of the bitmaps the scan loops are started on
MaxScanBit == 4

(***************************************************************************)
(* Bitmap arithmetic.                                                      *)
(***************************************************************************)
SymDiff(a, b) == (a \ b) \cup (b \ a)

Min(S) == CHOOSE x \in S : \A y \in S : x <= y

RECURSIVE Pow2(_)
Pow2(n) == IF n = 0 THEN 1 ELSE 2 * Pow2(n - 1)

\* the bits of a small non-negative int
NatBits(n) == {b \in 0..7 : (n \div Pow2(b)) % 2 = 1}

\* (bitmap) n for an int n: sign extension to 64 bits
IntBits(n) == IF n >= 0 THEN NatBits(n) ELSE Squares \ NatBits(-n - 1)

\* 1ULL << q.  For q outside 0..63 the shift is undefined: the count is taken
\* modulo 64 (u.S = "wrap") or the result is 0 (u.S = "zero").
Shl(q, u) ==
  IF q \in Squares THEN {q}
  ELSE IF u.S = "wrap" THEN {q % 64} ELSE {}

\* the values an uninitialised bitmap takes in the model
GarbageSquare(k) == IF k = 1 THEN 27 ELSE IF k = 2 THEN 56 ELSE (20 + 9 * k) % 64

UninitMasks == {{}} \cup {{GarbageSquare(k)} : k \in 1..MaxGarbage}

Undefined == [G : UninitMasks, A : {"acc", "zero"}, S : {"wrap", "zero"}]

(***************************************************************************)
(* GameState: constructors.                                                *)
(***************************************************************************)
\* GameState::GameState(Player, bitmap **, int, bool *, bool *, square).
\* The callers pass a bitmap[2][6] cast to bitmap **; the copy of the 12 masks
\* is modelled as the std::copy it is written as.
GameState(tm, pcs, hmc, ck, cq, ep) ==
  [to_move |-> tm, pieces |-> pcs, half_move_counter |-> hmc,
   can_castle_king_side |-> ck, can_castle_queen_side |-> cq,
   en_passant_square |-> ep]

NoPieces == [p \in Players |-> [k \in Pieces |-> {}]]

\* GameState::GameState()
StartingPosition ==
  GameState(WHITE,
    [p \in Players |-> [k \in Pieces |->
       IF k = KING THEN (IF p = WHITE THEN {4} ELSE {60})
       ELSE IF k = QUEEN THEN (IF p = WHITE THEN {3} ELSE {59})
       ELSE IF k = ROOK THEN (IF p = WHITE THEN {0, 7} ELSE {56, 63})
       ELSE IF k = BISHOP THEN (IF p = WHITE THEN {2, 5} ELSE {58, 61})
       ELSE IF k = KNIGHT THEN (IF p = WHITE THEN {1, 6} ELSE {57, 62})
       ELSE (IF p = WHITE THEN 8..15 ELSE {63 - i : i \in 8..15})]],
    0, [p \in Players |-> TRUE], [p \in Players |-> TRUE], INVALID_SQUARE)

(***************************************************************************)
(* GameState: bit primitives.                                              *)
(***************************************************************************)
\* the while loop of get_lowest_bit: shift right until zero, counting
RECURSIVE get_lowest_bit_loop(_, _)
get_lowest_bit_loop(lowest_power_of_two, lowest_bit) ==
  IF lowest_power_of_two = {} THEN lowest_bit
  ELSE get_lowest_bit_loop({q - 1 : q \in lowest_power_of_two \ {0}}, lowest_bit + 1)

\* GameState::get_lowest_bit: map & (-map) is the lowest set bit alone
get_lowest_bit(map) ==
  get_lowest_bit_loop(IF map = {} THEN {} ELSE {Min(map)}, 0)

\* GameState::get_occupancy_map
get_occupancy_map(s) ==
  UNION {s.pieces[WHITE][i] \cup s.pieces[BLACK][i] : i \in Pieces}

\* GameState::is_occupied
is_occupied(s, query, u) ==
  \E i \in Pieces : \E p \in Players : s.pieces[p][i] \cap Shl(query, u) # {}

\* GameState::square_ownership: the first hit in the order of the loop
\* (i ascending, WHITE before BLACK); -1 stands for the std::logic_error thrown
square_ownership(s, query, u) ==
  LET hits == {2 * i + p : i \in Pieces, p \in Players}
      found == {h \in hits : s.pieces[h % 2][h \div 2] \cap Shl(query, u) # {}}
  IN IF found = {} THEN -1 ELSE Min(found) % 2

\* GameState::get_king_position
get_king_position(s, player) == get_lowest_bit(s.pieces[player][KING])

(***************************************************************************)
(* GameState: spans (lines 210-314).                                        *)
(***************************************************************************)
\* the assertion of span, line 211: it reads pieces[to_move], not pieces[player]
span_assert(s, start, player, piece_type, u) ==
  s.pieces[s.to_move][piece_type] \cap Shl(start, u) # {}

\* the assertion of span_pawn, span_jumping, span_sliding and attacking_pawn
piece_assert(s, start, player, piece_type, u) ==
  s.pieces[player][piece_type] \cap Shl(start, u) # {}

\* GameState::span_pawn.  span_mask starts uninitialised (u.G); the three
\* `span_mask |= finish` or the int finish itself into the mask.
span_pawn(s, start, player, u) ==
  LET direction_modifier == IF player = WHITE THEN 1 ELSE -1
      forward == start + direction_modifier * 8
      can_move_forward == ~is_occupied(s, forward, u)
      capture(off) ==
        LET finish == start + direction_modifier * off
        IN IF (is_occupied(s, finish, u) /\ square_ownership(s, finish, u) # player)
              \/ finish = s.en_passant_square
           THEN IntBits(finish) ELSE {}
      double == start + direction_modifier * 16
  IN u.G
     \cup (IF can_move_forward THEN IntBits(forward) ELSE {})
     \cup capture(7) \cup capture(9)
     \cup (IF ((player = WHITE /\ start >= 8 /\ start < 16)
               \/ (player = BLACK /\ start >= 48 /\ start < 56))
              /\ can_move_forward /\ ~is_occupied(s, double, u)
           THEN IntBits(double) ELSE {})

\* GameState::span_jumping.  span_mask starts uninitialised (u.G).
span_jumping(s, start, player, direction_offset, piece_type, u) ==
  u.G \cup
  {current \in {start + direction_offset[i] : i \in 1..8} :
     /\ current >= 0
     /\ current <= 63
     /\ (~is_occupied(s, current, u) \/ square_ownership(s, current, u) # player)}

\* GameState::span_king
span_king(s, start, player, u) ==
  span_jumping(s, start, player, <<-1, 7, 8, 9, 1, -7, -8, -9>>, KING, u)

\* GameState::span_knight
span_knight(s, start, player, u) ==
  span_jumping(s, start, player, <<6, 15, 17, 10, -6, -15, -17, -10>>, KNIGHT, u)

\* the while (true) loop of span_sliding for one direction: what it ors into
\* span_mask before it breaks
RECURSIVE span_sliding_walk(_, _, _, _, _)
span_sliding_walk(s, current, offset, player, u) ==
  LET next == current + offset
  IN IF next < 0 \/ next > 63 THEN {}
     ELSE IF is_occupied(s, next, u)
          THEN (IF square_ownership(s, next, u) # player THEN {next} ELSE {})
          ELSE span_sliding_walk(s, next, offset, player, u)

\* GameState::span_sliding.  span_mask starts uninitialised (u.G).
span_sliding(s, start, player, direction_offset, piece_type, u) ==
  LET num_directions == IF piece_type = QUEEN THEN 8 ELSE 4
  IN u.G \cup
     UNION {span_sliding_walk(s, start, direction_offset[i], player, u) :
              i \in 1..num_directions}

\* GameState::span_queen
span_queen(s, start, player, u) ==
  span_sliding(s, start, player, <<-1, 7, 8, 9, 1, -7, -8, -9>>, QUEEN, u)

\* GameState::span_rook
span_rook(s, start, player, u) ==
  span_sliding(s, start, player, <<-1, 8, 1, -8>>, ROOK, u)

\* GameState::span_bishop
span_bishop(s, start, player, u) ==
  span_sliding(s, start, player, <<7, 9, -7, -9>>, BISHOP, u)

\* GameState::span
span(s, start, player, piece_type, u) ==
  IF piece_type = KING THEN span_king(s, start, player, u)
  ELSE IF piece_type = QUEEN THEN span_queen(s, start, player, u)
  ELSE IF piece_type = ROOK THEN span_rook(s, start, player, u)
  ELSE IF piece_type = BISHOP THEN span_bishop(s, start, player, u)
  ELSE IF piece_type = KNIGHT THEN span_knight(s, start, player, u)
  ELSE span_pawn(s, start, player, u)

(***************************************************************************)
(* GameState: attack map (lines 76-90, 316-326).                            *)
(***************************************************************************)
\* GameState::attacking_pawn
attacking_pawn(s, start, player, u) ==
  LET direction_modifier == IF player = WHITE THEN 1 ELSE -1
  IN Shl(start + direction_modifier * 7, u) \cup Shl(start + direction_modifier * 9, u)

\* GameState::attacking
attacking(s, start, player, piece, u) ==
  IF piece # PAWN THEN span(s, start, player, piece, u)
  ELSE attacking_pawn(s, start, player, u)

\* the local attack_map of get_attack_map when its loops end
attack_map_accumulated(s, player, u) ==
  UNION {UNION {attacking(s, start, player, i, u) : start \in s.pieces[player][i]} :
           i \in Pieces}

\* GameState::get_attack_map.  The function has no return statement: what the
\* caller receives is undefined, the accumulated map (u.A = "acc") or 0.
get_attack_map(s, player, u) ==
  IF u.A = "acc" THEN attack_map_accumulated(s, player, u) ELSE {}

(***************************************************************************)
(* Moves (rules.h lines 25-70).  One record shape for the three classes;    *)
(* -1 fills the members a class does not have.                              *)
(***************************************************************************)
\* NormalMove::NormalMove
NormalMove(start, finish, piece, tm, is_capture) ==
  [kind |-> "Normal", start |-> start, finish |-> finish, piece |-> piece,
   to_move |-> tm, is_capture |-> is_capture, promoted_piece |-> -1, variant |-> -1]

\* PromotionMove::PromotionMove: a NormalMove of a PAWN with is_capture false
PromotionMove(start, finish, tm, promoted_piece) ==
  [kind |-> "Promotion", start |-> start, finish |-> finish, piece |-> PAWN,
   to_move |-> tm, is_capture |-> FALSE, promoted_piece |-> promoted_piece,
   variant |-> -1]

\* CastlingMove::CastlingMove
CastlingMove(variant, tm) ==
  [kind |-> "Castling", start |-> -1, finish |-> -1, piece |-> -1,
   to_move |-> tm, is_capture |-> FALSE, promoted_piece |-> -1, variant |-> variant]

\* no move applied yet
NoMove ==
  [kind |-> "None", start |-> -1, finish |-> -1, piece |-> -1,
   to_move |-> -1, is_capture |-> FALSE, promoted_piece |-> -1, variant |-> -1]

(***************************************************************************)
(* NormalMove::transform (lines 360-407).                                   *)
(***************************************************************************)
\* lines 364-373: update bitboards
NormalMove_pieces(state, m) ==
  LET other == 1 - state.to_move
      captured == IF m.is_capture
                  THEN [state.pieces EXCEPT
                          ![other] = [i \in Pieces |-> @[i] \ {m.finish}]]
                  ELSE state.pieces
  IN [captured EXCEPT
        ![state.to_move][m.piece] = SymDiff(@, {m.start}) \cup {m.finish}]

\* a variant of NormalMove_half_move_counter: the counter is never reset
NormalMove_half_move_counter_never_reset(state, m) ==
  state.half_move_counter + 1

\* lines 375-380: update fifty-move rule counter
NormalMove_half_move_counter(state, m) ==
  IF m.is_capture \/ m.piece = PAWN THEN 0 ELSE state.half_move_counter + 1

\* lines 382-391: king-side castling permission, from the updated bitboards
NormalMove_can_castle_king_side(state, pcs) ==
  LET king_side_rook_square == IF state.to_move = WHITE THEN 7 ELSE 63
  IN IF pcs[state.to_move][ROOK] \cap {king_side_rook_square} = {}
     THEN [state.can_castle_king_side EXCEPT ![state.to_move] = FALSE]
     ELSE state.can_castle_king_side

\* a variant of NormalMove_can_castle_queen_side: the permission is recomputed
\* from the rook's presence instead of only being withdrawn
NormalMove_can_castle_queen_side_recomputed(state, pcs) ==
  LET queen_side_rook_square == IF state.to_move = WHITE THEN 0 ELSE 56
  IN [state.can_castle_queen_side EXCEPT
        ![state.to_move] = pcs[state.to_move][ROOK] \cap {queen_side_rook_square} # {}]

\* lines 382-394: queen-side castling permission, from the updated bitboards
NormalMove_can_castle_queen_side(state, pcs) ==
  LET queen_side_rook_square == IF state.to_move = WHITE THEN 0 ELSE 56
  IN IF pcs[state.to_move][ROOK] \cap {queen_side_rook_square} = {}
     THEN [state.can_castle_queen_side EXCEPT ![state.to_move] = FALSE]
     ELSE state.can_castle_queen_side

\* a variant of NormalMove_en_passant_square: the travel distance is not tested
NormalMove_en_passant_square_any_distance(m) ==
  IF m.piece = PAWN
  THEN (IF m.start <= m.finish THEN m.start ELSE m.finish) + 8
  ELSE INVALID_SQUARE

\* lines 396-403: en passant square
NormalMove_en_passant_square(m) ==
  LET travel_distance == IF m.finish >= m.start THEN m.finish - m.start
                         ELSE m.start - m.finish
  IN IF m.piece = PAWN /\ travel_distance = 16
     THEN (IF m.start <= m.finish THEN m.start ELSE m.finish) + 8
     ELSE INVALID_SQUARE

\* NormalMove::transform
NormalMove_transform(state, m) ==
  LET pcs == NormalMove_pieces(state, m)
  IN GameState(1 - state.to_move, pcs,
               NormalMove_half_move_counter(state, m),
               NormalMove_can_castle_king_side(state, pcs),
               NormalMove_can_castle_queen_side(state, pcs),
               NormalMove_en_passant_square(m))

(***************************************************************************)
(* PromotionMove::transform (lines 409-423).                                *)
(***************************************************************************)
\* lines 415-419: update bitboards; the destination is not cleared
PromotionMove_pieces(state, m) ==
  LET moved == [state.pieces EXCEPT
                  ![state.to_move][PAWN] = SymDiff(@, {m.start})]
  IN [moved EXCEPT ![state.to_move][m.promoted_piece] = @ \cup {m.finish}]

\* PromotionMove::transform
PromotionMove_transform(state, m) ==
  GameState(1 - state.to_move, PromotionMove_pieces(state, m), 0,
            state.can_castle_king_side, state.can_castle_queen_side,
            INVALID_SQUARE)

(***************************************************************************)
(* CastlingMove::transform (lines 425-465).                                 *)
(***************************************************************************)
\* lines 429-451: update bitboards, from the fixed home squares
CastlingMove_pieces(state, m) ==
  LET king_square == IF state.to_move = WHITE THEN 4 ELSE 60
      rook_square ==
        IF m.variant = KING_SIDE
        THEN (IF state.to_move = WHITE THEN 7 ELSE 63)
        ELSE (IF state.to_move = WHITE THEN 0 ELSE 56)
      new_king_square ==
        IF m.variant = KING_SIDE THEN king_square + 2 ELSE king_square - 2
      new_rook_square ==
        IF m.variant = KING_SIDE THEN rook_square - 2 ELSE rook_square + 3
  IN [state.pieces EXCEPT
        ![state.to_move][KING] = SymDiff(@, {king_square}) \cup {new_king_square},
        ![state.to_move][ROOK] = SymDiff(@, {rook_square}) \cup {new_rook_square}]

\* lines 456-460: king-side castling permission
CastlingMove_can_castle_king_side(state) ==
  [state.can_castle_king_side EXCEPT ![state.to_move] = FALSE]

\* lines 456-461: queen-side castling permission
CastlingMove_can_castle_queen_side(state) ==
  [state.can_castle_queen_side EXCEPT ![state.to_move] = FALSE]

\* a variant of CastlingMove_transform: the turn player is not flipped
CastlingMove_transform_same_side(state, m) ==
  GameState(state.to_move, CastlingMove_pieces(state, m),
            state.half_move_counter + 1,
            CastlingMove_can_castle_king_side(state),
            CastlingMove_can_castle_queen_side(state),
            INVALID_SQUARE)

\* CastlingMove::transform
CastlingMove_transform(state, m) ==
  GameState(1 - state.to_move, CastlingMove_pieces(state, m),
            state.half_move_counter + 1,
            CastlingMove_can_castle_king_side(state),
            CastlingMove_can_castle_queen_side(state),
            INVALID_SQUARE)

\* Move::transform, dispatched on the class of the move
transform(state, m) ==
  IF m.kind = "Normal" THEN NormalMove_transform(state, m)
  ELSE IF m.kind = "Promotion" THEN PromotionMove_transform(state, m)
  ELSE CastlingMove_transform(state, m)

(***************************************************************************)
(* GameState: legality filter and enumerator (lines 97-208).                *)
(***************************************************************************)
\* GameState::in_check_after_move
in_check_after_move(s, m, u) ==
  LET new_state == transform(s, m)
      attack_map == get_attack_map(new_state, 1 - s.to_move, u)
      king_position == get_king_position(new_state, s.to_move)
  IN attack_map \cap Shl(king_position, u) # {}

\* GameState::king_side_castling_conditions_satisfied
king_side_castling_conditions_satisfied(s, u) ==
  LET in_between_squares == IF s.to_move = WHITE THEN {5, 6} ELSE {61, 62}
      passing_squares == IF s.to_move = WHITE THEN {4, 5, 6} ELSE {60, 61}
      attack_map == get_attack_map(s, 1 - s.to_move, u)
      occupancy_map == get_occupancy_map(s)
  IN IF passing_squares \cap attack_map # {} THEN FALSE
     ELSE IF in_between_squares \cap occupancy_map # {} THEN FALSE
     ELSE IF ~s.can_castle_king_side[s.to_move] THEN FALSE
     ELSE TRUE

\* GameState::queen_side_castling_conditions_satisfied
queen_side_castling_conditions_satisfied(s, u) ==
  LET in_between_squares == IF s.to_move = WHITE THEN {1, 2, 3} ELSE {57, 58, 59}
      passing_squares == IF s.to_move = WHITE THEN {2, 3, 4} ELSE {58, 59, 60}
      attack_map == get_attack_map(s, 1 - s.to_move, u)
      occupancy_map == get_occupancy_map(s)
  IN IF passing_squares \cap attack_map # {} THEN FALSE
     ELSE IF in_between_squares \cap occupancy_map # {} THEN FALSE
     ELSE IF ~s.can_castle_queen_side[s.to_move] THEN FALSE
     ELSE TRUE

\* a variant of moves_for: a pawn reaching the first or last rank promotes to a
\* queen only
moves_for_queen_only(s, start, finish, piece_type, u) ==
  IF piece_type = PAWN /\ (finish < 8 \/ finish >= 56)
  THEN {m \in {PromotionMove(start, finish, s.to_move, QUEEN)} :
          ~in_check_after_move(s, m, u)}
  ELSE {m \in {NormalMove(start, finish, piece_type, s.to_move,
                          is_occupied(s, finish, u))} :
          ~in_check_after_move(s, m, u)}

\* lines 154-188: the candidates built for one origin and one destination,
\* those that pass in_check_after_move
moves_for(s, start, finish, piece_type, u) ==
  IF piece_type = PAWN /\ (finish < 8 \/ finish >= 56)
  THEN {m \in {PromotionMove(start, finish, s.to_move, promoted_piece) :
                 promoted_piece \in {QUEEN, ROOK, BISHOP, KNIGHT}} :
          ~in_check_after_move(s, m, u)}
  ELSE {m \in {NormalMove(start, finish, piece_type, s.to_move,
                          is_occupied(s, finish, u))} :
          ~in_check_after_move(s, m, u)}

\* lines 194-205: check castling
castling_moves(s, u) ==
  (IF king_side_castling_conditions_satisfied(s, u)
   THEN {CastlingMove(KING_SIDE, s.to_move)} ELSE {})
  \cup
  (IF queen_side_castling_conditions_satisfied(s, u)
   THEN {CastlingMove(QUEEN_SIDE, s.to_move)} ELSE {})

\* GameState::get_valid_moves: the vector it fills, as the set of its entries
get_valid_moves(s, u) ==
  UNION {UNION {UNION {moves_for(s, start, finish, i, u) :
                         finish \in span(s, start, s.to_move, i, u)} :
                  start \in s.pieces[s.to_move][i]} :
           i \in Pieces}
  \cup castling_moves(s, u)

(***************************************************************************)
(* GameState: terminal-state queries (lines 328-345).                       *)
(***************************************************************************)
\* GameState::is_check
is_check(s, u) ==
  LET attack_map == get_attack_map(s, 1 - s.to_move, u)
      king_position == get_king_position(s, s.to_move)
  IN attack_map \cap Shl(king_position, u) # {}

\* GameState::no_valid_moves, of the vector get_valid_moves returned to it
no_valid_moves(moves) == ~(moves = {})

\* GameState::is_checkmate
is_checkmate(s, moves, u) == is_check(s, u) /\ no_valid_moves(moves)

\* GameState::is_stalemate
is_stalemate(s, moves, u) == ~is_check(s, u) /\ no_valid_moves(moves)

(***************************************************************************)
(* The state: the GameState a driver holds, the vector its last call of     *)
(* get_valid_moves returned, the move it applied last, the results of its   *)
(* last terminal queries; and the locals of the bit-scan loops of           *)
(* get_valid_moves: the bitmap walked (piece_locations, lines 147-191, or   *)
(* piece_span, lines 152-188) and the values it has had in this walk.       *)
(***************************************************************************)
VARIABLES to_move, pieces, half_move_counter, can_castle_king_side,
          can_castle_queen_side, en_passant_square,
          valid_moves, pc, last_move, plies_left, terminal,
          scan_pc, piece_locations, piece_span, scan_seen

position_vars == <<to_move, pieces, half_move_counter, can_castle_king_side,
                   can_castle_queen_side, en_passant_square>>

driver_vars == <<valid_moves, pc, last_move, plies_left, terminal>>

scan_vars == <<scan_pc, piece_locations, piece_span, scan_seen>>

vars == <<position_vars, driver_vars, scan_vars>>

\* the GameState held
State ==
  GameState(to_move, pieces, half_move_counter, can_castle_king_side,
            can_castle_queen_side, en_passant_square)

\* the GameState held after the step
StateNext ==
  GameState(to_move', pieces', half_move_counter', can_castle_king_side',
            can_castle_queen_side', en_passant_square')

Holds(s) ==
  /\ to_move = s.to_move
  /\ pieces = s.pieces
  /\ half_move_counter = s.half_move_counter
  /\ can_castle_king_side = s.can_castle_king_side
  /\ can_castle_queen_side = s.can_castle_queen_side
  /\ en_passant_square = s.en_passant_square

HoldsNext(s) ==
  /\ to_move' = s.to_move
  /\ pieces' = s.pieces
  /\ half_move_counter' = s.half_move_counter
  /\ can_castle_king_side' = s.can_castle_king_side
  /\ can_castle_queen_side' = s.can_castle_queen_side
  /\ en_passant_square' = s.en_passant_square

NoTerminal == [asked |-> FALSE, check |-> FALSE, no_valid_moves |-> FALSE,
               checkmate |-> FALSE, stalemate |-> FALSE]

(***************************************************************************)
(* Positions a game is started from: the starting position, and four        *)
(* positions of games in progress (built with the six-argument constructor) *)
(* that bring castling and promotion within MaxPlies calls.  In each, no    *)
(* two pieces share a square and each side has one king.                    *)
(***************************************************************************)
Board(W, B) ==
  [p \in Players |-> [k \in Pieces |-> IF p = WHITE THEN W[k + 1] ELSE B[k + 1]]]

\* kings and rooks at home, all four rights, White to move
CastlePosition ==
  GameState(WHITE,
            Board(<<{4}, {}, {0, 7}, {}, {}, {}>>, <<{60}, {}, {56, 63}, {}, {}, {}>>),
            0, [p \in Players |-> TRUE], [p \in Players |-> TRUE], INVALID_SQUARE)

\* a white pawn on b7 beside a black rook on a8, White to move
PromotionPosition ==
  GameState(WHITE,
            Board(<<{4}, {}, {}, {}, {}, {49}>>, <<{60}, {}, {56}, {}, {}, {}>>),
            0, [p \in Players |-> FALSE], [p \in Players |-> FALSE], INVALID_SQUARE)

\* a white knight on h6 attacks g8; Black to move with the king-side right
KnightPosition ==
  GameState(BLACK,
            Board(<<{4}, {}, {}, {}, {47}, {}>>, <<{60}, {}, {63}, {}, {}, {}>>),
            0, [p \in Players |-> p = BLACK], [p \in Players |-> FALSE],
            INVALID_SQUARE)

\* Black has just played d7-d5 past the white pawn on e5: en_passant_square
\* is d6 (43), White to move
EnPassantPosition ==
  GameState(WHITE,
            Board(<<{4}, {}, {}, {}, {}, {36}>>, <<{60}, {}, {}, {}, {}, {35}>>),
            0, [p \in Players |-> FALSE], [p \in Players |-> FALSE], 43)

\* apply calls along one behaviour from the starting position: the first
\* ply only, every further ply lists the moves of some 180 positions of 32
\* pieces each
MaxPliesStart == Min({1, MaxPlies})

\* a position to start from, the number of moves applied from it (the reply
\* to the two-square advance only, from EnPassantPosition), and the move that
\* led to it
Scenarios ==
  {[state |-> StartingPosition, plies |-> MaxPliesStart, last |-> NoMove],
   [state |-> CastlePosition, plies |-> MaxPlies, last |-> NoMove],
   [state |-> PromotionPosition, plies |-> MaxPlies, last |-> NoMove],
   [state |-> KnightPosition, plies |-> MaxPlies, last |-> NoMove],
   [state |-> EnPassantPosition, plies |-> MaxPliesStart,
    last |-> NormalMove(51, 35, PAWN, BLACK, FALSE)]}

ScanIdle ==
  /\ scan_pc = "idle"
  /\ piece_locations = {}
  /\ piece_span = {}
  /\ scan_seen = {}

Init ==
  /\ \E sc \in Scenarios :
       Holds(sc.state) /\ plies_left = sc.plies /\ last_move = sc.last
  /\ valid_moves = {}
  /\ pc = "idle"
  /\ terminal = NoTerminal
  /\ ScanIdle

(***************************************************************************)
(* Operations of the driver.                                               *)
(***************************************************************************)
\* a call of get_valid_moves on the position held (the driver makes at most
\* plies_left more calls of transform, and asks for moves only to apply one)
GetValidMoves ==
  /\ pc = "idle"
  /\ plies_left > 0
  /\ \E u \in Undefined : valid_moves' = get_valid_moves(State, u)
  /\ pc' = "listed"
  /\ UNCHANGED <<position_vars, last_move, plies_left, terminal, scan_vars>>

\* calls of is_check, is_checkmate and is_stalemate on the position held;
\* no_valid_moves is given the vector get_valid_moves returned for it
TerminalQueries ==
  /\ pc = "listed"
  /\ \E u \in Undefined :
       terminal' = [asked |-> TRUE,
                    check |-> is_check(State, u),
                    no_valid_moves |-> no_valid_moves(valid_moves),
                    checkmate |-> is_checkmate(State, valid_moves, u),
                    stalemate |-> is_stalemate(State, valid_moves, u)]
  /\ pc' = "queried"
  /\ UNCHANGED <<position_vars, valid_moves, last_move, plies_left, scan_vars>>

\* the driver applies move m of the vector returned
Apply(m) ==
  /\ pc = "listed"
  /\ plies_left > 0
  /\ m \in valid_moves
  /\ HoldsNext(transform(State, m))
  /\ last_move' = m
  /\ plies_left' = plies_left - 1
  /\ valid_moves' = {}
  /\ pc' = "idle"
  /\ UNCHANGED <<terminal, scan_vars>>

\* NormalMove::transform on a returned move
ApplyNormalMove == \E m \in valid_moves : m.kind = "Normal" /\ Apply(m)

\* PromotionMove::transform on a returned move
ApplyPromotionMove == \E m \in valid_moves : m.kind = "Promotion" /\ Apply(m)

\* CastlingMove::transform on a returned move
ApplyCastlingMove == \E m \in valid_moves : m.kind = "Castling" /\ Apply(m)

Next ==
  \/ GetValidMoves
  \/ TerminalQueries
  \/ ApplyNormalMove
  \/ ApplyPromotionMove
  \/ ApplyCastlingMove

Spec == Init /\ [][Next]_vars

(***************************************************************************)
(* The bit-scan loops of get_valid_moves, as written (lines 150-191).       *)
(* Each is started on a bitmap of bits 0..MaxScanBit and followed until it  *)
(* ends or until its bitmap takes a value it has had: the body is a         *)
(* function of the bitmap, so from there the loop repeats itself for ever.  *)
(***************************************************************************)
ScanMasks == SUBSET (0..MaxScanBit)

\* line 147: piece_locations = pieces[to_move][i]
ScanStartLocations ==
  /\ scan_pc = "idle"
  /\ piece_locations' \in ScanMasks
  /\ scan_pc' = "locations"
  /\ UNCHANGED <<position_vars, driver_vars, piece_span, scan_seen>>

\* line 152: piece_span = span(start, to_move, piece_type)
ScanStartSpan ==
  /\ scan_pc = "idle"
  /\ piece_span' \in ScanMasks
  /\ scan_pc' = "span"
  /\ UNCHANGED <<position_vars, driver_vars, piece_locations, scan_seen>>

\* lines 150-151, 190: one iteration of while (piece_locations > 0)
ScanOuter ==
  /\ scan_pc = "locations"
  /\ piece_locations # {}
  /\ piece_locations \notin scan_seen
  /\ \E u \in Undefined :
       LET start == get_lowest_bit(piece_locations)
       IN piece_locations' = SymDiff(piece_locations, Shl(start, u))
  /\ scan_seen' = scan_seen \cup {piece_locations}
  /\ UNCHANGED <<position_vars, driver_vars, scan_pc, piece_span>>

\* lines 154-155, 187: one iteration of while (piece_span > 0)
ScanInner ==
  /\ scan_pc = "span"
  /\ piece_span # {}
  /\ piece_span \notin scan_seen
  /\ LET finish == get_lowest_bit(piece_span)
     IN piece_span' = SymDiff(piece_span, IntBits(finish))
  /\ scan_seen' = scan_seen \cup {piece_span}
  /\ UNCHANGED <<position_vars, driver_vars, scan_pc, piece_locations>>

\* the loop test fails: the loop is left
ScanDone ==
  /\ \/ scan_pc = "locations" /\ piece_locations = {}
     \/ scan_pc = "span" /\ piece_span = {}
  /\ scan_pc' = "done"
  /\ UNCHANGED <<position_vars, driver_vars, piece_locations, piece_span, scan_seen>>

InitScan ==
  /\ Holds(StartingPosition)
  /\ plies_left = 0
  /\ valid_moves = {}
  /\ pc = "idle"
  /\ last_move = NoMove
  /\ terminal = NoTerminal
  /\ ScanIdle

NextScan ==
  \/ ScanStartLocations
  \/ ScanStartSpan
  \/ ScanOuter
  \/ ScanInner
  \/ ScanDone

SpecScan == InitScan /\ [][NextScan]_vars

(***************************************************************************)
(* Properties.                                                             *)
(***************************************************************************)
\* the masks that have the bit of square sq set
Holders(sq) == {<<p, k>> \in Players \X Pieces : sq \in pieces[p][k]}

\* the number of set bits summed over the 12 masks
PieceCount(pcs) ==
  Cardinality({x \in Players \X Pieces \X Squares : x[3] \in pcs[x[1]][x[2]]})

(***************************************************************************)
(* The reference geometry the properties are stated with: the attack map of *)
(* a side by the rules of chess on the 8 x 8 board (square = rank*8 + file).*)
(***************************************************************************)
File(sq) == sq % 8

Rank(sq) == sq \div 8

Abs(n) == IF n >= 0 THEN n ELSE -n

\* the squares a side's pieces stand on
Occupancy(s, player) == UNION {s.pieces[player][k] : k \in Pieces}

\* the squares reached from sq along direction (df, dr): every empty square up
\* to the board edge or the first occupied square, and that square iff it
\* holds a piece of the other side
RECURSIVE RefRay(_, _, _, _, _)
RefRay(s, sq, df, dr, player) ==
  IF File(sq) + df \notin 0..7 \/ Rank(sq) + dr \notin 0..7 THEN {}
  ELSE LET next == sq + df + 8 * dr
       IN IF next \in Occupancy(s, player) THEN {}
          ELSE IF next \in Occupancy(s, 1 - player) THEN {next}
          ELSE {next} \cup RefRay(s, next, df, dr, player)

Orthogonal == {<<1, 0>>, <<-1, 0>>, <<0, 1>>, <<0, -1>>}

Diagonal == {<<1, 1>>, <<1, -1>>, <<-1, 1>>, <<-1, -1>>}

\* the squares a piece of the kind and side on sq attacks
RefAttacking(s, sq, player, kind) ==
  IF kind = KING
  THEN {d \in Squares \ Occupancy(s, player) :
          /\ d # sq
          /\ Abs(File(d) - File(sq)) <= 1
          /\ Abs(Rank(d) - Rank(sq)) <= 1}
  ELSE IF kind = KNIGHT
  THEN {d \in Squares \ Occupancy(s, player) :
          <<Abs(File(d) - File(sq)), Abs(Rank(d) - Rank(sq))>>
            \in {<<1, 2>>, <<2, 1>>}}
  ELSE IF kind = PAWN
  THEN {d \in Squares :
          /\ Abs(File(d) - File(sq)) = 1
          /\ Rank(d) - Rank(sq) = (IF player = WHITE THEN 1 ELSE -1)}
  ELSE UNION {RefRay(s, sq, d[1], d[2], player) :
                d \in (IF kind = ROOK THEN Orthogonal
                       ELSE IF kind = BISHOP THEN Diagonal
                       ELSE Orthogonal \cup Diagonal)}

\* the attack map of a side: the union of the attacks of its pieces
AttackMap(s, player) ==
  UNION {UNION {RefAttacking(s, sq, player, k) : sq \in s.pieces[player][k]} :
           k \in Pieces}

\* a pawn move over two ranks along its file
TwoSquareAdvance(m) ==
  /\ m.kind = "Normal"
  /\ m.piece = PAWN
  /\ (m.finish - m.start = 16 \/ m.start - m.finish = 16)

\* C1: in every position reached by applying returned moves, every square has
\* its bit set in at most one of the 12 piece masks.
C1_NoOverlap == \A sq \in Squares : Cardinality(Holders(sq)) <= 1

\* C2: in every position reached by applying returned moves, each side's King
\* mask has exactly one bit set.
C2_OneKingPerSide == \A p \in Players : Cardinality(pieces[p][KING]) = 1

\* C3: after a returned move is applied, no king of the side that moved stands
\* on a square of the other side's attack map.
C3_MoverKingNotAttacked ==
  last_move # NoMove =>
    pieces[1 - to_move][KING] \cap AttackMap(State, to_move) = {}

\* C4: get_valid_moves on the starting position returns exactly 20 moves: 16
\* pawn moves (8 single pushes, 8 double pushes), 4 knight moves, no castling
\* move and no promotion.
C4_InitialLegalMoves ==
  (pc = "listed" /\ State = StartingPosition) =>
    /\ Cardinality(valid_moves) = 20
    /\ {<<m.start, m.finish>> : m \in {x \in valid_moves : x.piece = PAWN}}
         = {<<sq, sq + 8>> : sq \in 8..15} \cup {<<sq, sq + 16>> : sq \in 8..15}
    /\ Cardinality({m \in valid_moves : m.piece = KNIGHT}) = 4
    /\ \A m \in valid_moves : m.kind = "Normal"

\* C5: the scan loops of get_valid_moves end.  A loop whose bitmap takes a
\* value it has had before never ends, so: no walk returns to such a value.
C5_ScanTerminates ==
  /\ scan_pc = "span" => piece_span \notin scan_seen
  /\ scan_pc = "locations" => piece_locations \notin scan_seen

\* C5, the step it rests on: each iteration of a scan loop removes exactly one
\* set bit from the bitmap it walks.
C5_IterationRemovesOneBit ==
  [][/\ piece_span' # piece_span =>
          Cardinality(piece_span') = Cardinality(piece_span) - 1
     /\ piece_locations' # piece_locations =>
          Cardinality(piece_locations') = Cardinality(piece_locations) - 1]_vars

\* the condition under which C6 has the castling move of a wing offered
CastlingOfferCondition(s, wing) ==
  LET king_square == IF s.to_move = WHITE THEN 4 ELSE 60
      between == IF wing = KING_SIDE
                 THEN {king_square + 1, king_square + 2}
                 ELSE {king_square - 1, king_square - 2, king_square - 3}
      traversed == IF wing = KING_SIDE
                   THEN {king_square, king_square + 1, king_square + 2}
                   ELSE {king_square, king_square - 1, king_square - 2}
  IN /\ IF wing = KING_SIDE THEN s.can_castle_king_side[s.to_move]
        ELSE s.can_castle_queen_side[s.to_move]
     /\ between \cap get_occupancy_map(s) = {}
     /\ traversed \cap AttackMap(s, 1 - s.to_move) = {}

\* C6: the returned vector holds the castling move of a wing iff the mover has
\* the right for the wing, the squares between king and rook are empty, and no
\* square the king traverses (start and landing included) is attacked.
C6_CastlingOffer ==
  pc = "listed" =>
    \A wing \in {KING_SIDE, QUEEN_SIDE} :
      (CastlingMove(wing, to_move) \in valid_moves)
        <=> CastlingOfferCondition(State, wing)

\* C7: no_valid_moves is true exactly when the vector of legal moves is empty;
\* is_checkmate is is_check and no legal move, is_stalemate is not is_check
\* and no legal move.
C7_TerminalQueries ==
  terminal.asked =>
    /\ terminal.no_valid_moves = (valid_moves = {})
    /\ terminal.checkmate = (terminal.check /\ valid_moves = {})
    /\ terminal.stalemate = (~terminal.check /\ valid_moves = {})

\* C8: applying a returned move flagged as a capture lowers the number of set
\* bits over the 12 masks by exactly one.
C8_CaptureConservation ==
  [][(pc = "listed" /\ pc' = "idle" /\ last_move'.is_capture) =>
       PieceCount(pieces') = PieceCount(pieces) - 1]_vars

\* C9: after a pawn move over two ranks en_passant_square is the square midway
\* between origin and destination; after any other move, and before the first,
\* it is INVALID_SQUARE.
C9_EnPassantWindow ==
  IF TwoSquareAdvance(last_move)
  THEN 2 * en_passant_square = last_move.start + last_move.finish
  ELSE en_passant_square = INVALID_SQUARE

\* C9, its case: a pawn move over two ranks has been applied (a white pawn's:
\* the move that led to EnPassantPosition is Black's)
C9_Witness ==
  /\ TwoSquareAdvance(last_move)
  /\ last_move.to_move = WHITE
  /\ en_passant_square \in Squares

\* C10: no step turns a castling right from false to true.
C10_CastlingRightMonotone ==
  [][\A p \in Players :
       /\ ~can_castle_king_side[p] => ~can_castle_king_side'[p]
       /\ ~can_castle_queen_side[p] => ~can_castle_queen_side'[p]]_vars

\* C10, its case: both king-side rights were withdrawn by moves of a game that
\* began with them (PromotionPosition and KnightPosition begin with no
\* queen-side right), the second while the first was already false
C10_Witness ==
  /\ last_move # NoMove
  /\ ~can_castle_king_side[WHITE]
  /\ ~can_castle_king_side[BLACK]
  /\ can_castle_queen_side[WHITE] \/ can_castle_queen_side[BLACK]

\* C11: applying a move sets half_move_counter to 0 if the move is flagged as a
\* capture or moves a pawn (every promotion included), and to the previous
\* value plus one otherwise (castling included); a step that takes a piece off
\* the board leaves it 0; it is never negative.
C11_HalfMoveClock ==
  [][(pc = "listed" /\ pc' = "idle") =>
       /\ half_move_counter' =
            IF last_move'.is_capture \/ last_move'.piece = PAWN
            THEN 0 ELSE half_move_counter + 1
       /\ PieceCount(pieces') < PieceCount(pieces) => half_move_counter' = 0
       /\ half_move_counter' >= 0]_vars

\* C11, its case: two moves in a row that neither capture nor move a pawn,
\* the counter incremented by each
C11_Witness ==
  /\ last_move # NoMove
  /\ ~last_move.is_capture
  /\ last_move.piece # PAWN
  /\ half_move_counter = 2

\* the first and the last rank
EdgeRanks == (0..7) \cup (56..63)

\* the promotions C12 has returned for the pawns of the side to move, with u
\* the outcome of the undefined reads of the call: four candidates for each
\* destination of a pawn's span on an edge rank, each kept iff
\* in_check_after_move is false of it
PromotionsDue(s, u) ==
  UNION {UNION {{m \in {PromotionMove(start, finish, s.to_move, k) :
                          k \in {QUEEN, ROOK, BISHOP, KNIGHT}} :
                   ~in_check_after_move(s, m, u)} :
                  finish \in span_pawn(s, start, s.to_move, u) \cap EdgeRanks} :
           start \in s.pieces[s.to_move][PAWN]}

C13_LowestSetBit ==
  \A map \in {piece_locations, piece_span} :
    map # {} =>
      /\ get_lowest_bit(map) = Min(map)
      /\ get_lowest_bit(map) # get_lowest_bit({})

\* C14: applying a move of any class flips to_move, so after two moves in a
\* row to_move is what it was before the first; nothing else changes to_move.
C14_SideFlipParity ==
  [][/\ (pc = "listed" /\ pc' = "idle") =>
          /\ to_move' = 1 - to_move
          /\ last_move'.to_move = to_move
          /\ last_move # NoMove => to_move' = last_move.to_move
     /\ to_move' # to_move => (pc = "listed" /\ pc' = "idle")]_vars

\* C14, its case: two moves in a row, the second a castling move, and the
\* side to move is again the side that made the first
C14_Witness ==
  /\ last_move.kind = "Castling"
  /\ half_move_counter = 2
  /\ to_move = 1 - last_move.to_move

\* C15: get_attack_map returns the union of attacking over every piece of the
\* side on every path, so is_check is true exactly when that union (for some
\* outcome u of the undefined reads in attacking) holds the square of the king
\* of the side to move.
C15_AttackMapUnion ==
  terminal.asked =>
    \E u \in Undefined :
      terminal.check =
        (pieces[to_move][KING] \cap attack_map_accumulated(State, 1 - to_move, u) # {})

\* C16: in every position reached, a side that has the castling right of a
\* wing has a rook on the home rook square of that wing (h1, a1 for White,
\* h8, a8 for Black).
C16_RightsFollowRook ==
  \A p \in Players :
    /\ can_castle_king_side[p] =>
         (IF p = WHITE THEN 7 ELSE 63) \in pieces[p][ROOK]
    /\ can_castle_queen_side[p] =>
         (IF p = WHITE THEN 0 ELSE 56) \in pieces[p][ROOK]

\* C17: the span of a queen, rook or bishop is the set got by walking each of
\* its directions along the rank, file or diagonal: every empty square up to
\* the board edge or the first occupied square, and that square iff it holds
\* an enemy piece (here: for some outcome u of the uninitialised read).
C17_SlidingSpan ==
  pc = "listed" =>
    \A kind \in {QUEEN, ROOK, BISHOP} :
      \A sq \in pieces[to_move][kind] :
        \E u \in Undefined :
          span(State, sq, to_move, kind, u) = RefAttacking(State, sq, to_move, kind)

\* C18: the span of a king or knight is the set of the squares of the board
\* not occupied by a friendly piece at file and rank distance at most 1 (king,
\* origin excluded) or at distances (1,2) or (2,1) (knight); no destination
\* comes from wrapping across a board edge (here: for some outcome u of the
\* uninitialised read).
C18_JumpingSpan ==
  pc = "listed" =>
    \A kind \in {KING, KNIGHT} :
      \A sq \in pieces[to_move][kind] :
        \E u \in Undefined :
          span(State, sq, to_move, kind, u) = RefAttacking(State, sq, to_move, kind)

\* the destinations C19 allows a pawn of the side on sq
RefPawnSpan(s, sq, player) ==
  LET dir == IF player = WHITE THEN 1 ELSE -1
      occupied == get_occupancy_map(s)
      one == sq + 8 * dir
      two == sq + 16 * dir
      home == Rank(sq) = (IF player = WHITE THEN 1 ELSE 6)
  IN {d \in Squares : d = one /\ d \notin occupied}
     \cup {d \in Squares : d = two /\ home /\ one \notin occupied /\ d \notin occupied}
     \cup {d \in Squares :
            /\ Abs(File(d) - File(sq)) = 1
            /\ Rank(d) - Rank(sq) = dir
            /\ (d \in Occupancy(s, 1 - player) \/ d = s.en_passant_square)}

\* C19: the span of a pawn has one bit per allowed destination and no other:
\* one step forward iff empty, two steps forward iff on its starting rank with
\* both squares empty, each forward diagonal on an adjacent file iff it holds
\* an enemy piece or is the en passant square (here: for some outcome u of the
\* uninitialised read).
C19_PawnSpan ==
  pc = "listed" =>
    \A sq \in pieces[to_move][PAWN] :
      \E u \in Undefined :
        span(State, sq, to_move, PAWN, u) = RefPawnSpan(State, sq, to_move)

\* C20: for a pawn on ranks 2..7 attacking returns exactly the forward
\* diagonal squares on the adjacent files that are on the board (two for files
\* b..g, one for files a and h), whatever stands on them; every bit index it
\* computes is in 0..63 (here: for every outcome u of an out-of-range shift).
C20_PawnAttackSquares ==
  pc = "listed" =>
    \A p \in Players :
      \A sq \in pieces[p][PAWN] :
        Rank(sq) \in 1..6 =>
          /\ \A u \in Undefined :
               attacking(State, sq, p, PAWN, u) = RefAttacking(State, sq, p, PAWN)
          /\ \A off \in {7, 9} : sq + (IF p = WHITE THEN off ELSE -off) \in Squares

\* C21: whenever the returned vector holds the castling move of a wing, the
\* mover's king is on its home square (e1, e8) and the mover has a rook on the
\* home rook square of the wing, so that applying the move relocates that
\* king and that rook and neither creates nor removes a piece.
C21_CastlingFromHome ==
  pc = "listed" =>
    \A wing \in {KING_SIDE, QUEEN_SIDE} :
      CastlingMove(wing, to_move) \in valid_moves =>
        LET king_square == IF to_move = WHITE THEN 4 ELSE 60
            rook_square == IF wing = KING_SIDE
                           THEN (IF to_move = WHITE THEN 7 ELSE 63)
                           ELSE (IF to_move = WHITE THEN 0 ELSE 56)
            after == transform(State, CastlingMove(wing, to_move))
        IN /\ pieces[to_move][KING] = {king_square}
           /\ rook_square \in pieces[to_move][ROOK]
           /\ PieceCount(after.pieces) = PieceCount(pieces)

\* C22: in a call of get_valid_moves, whose castling checks compute the attack
\* map of the side not to move, every assertion met holds: that of span for
\* each piece of the side to move and each piece other than a pawn of the
\* other side, and that of span_pawn, span_jumping, span_sliding and
\* attacking_pawn for each piece of either side (here with start the square
\* of the piece).
C22_SpanAssertions ==
  pc = "listed" =>
    \A player \in Players : \A kind \in Pieces :
      \A sq \in pieces[player][kind] : \A u \in Undefined :
        /\ piece_assert(State, sq, player, kind, u)
        /\ (kind # PAWN \/ player = to_move) =>
             span_assert(State, sq, player, kind, u)

\* C23: when a pawn of the side to move is played diagonally onto the empty
\* en passant square, the enemy pawn that made the two-square advance (the
\* pawn behind that square) is no longer on the board afterwards and the
\* number of pieces is one less.  The move is the NormalMove get_valid_moves
\* builds for that origin and destination.
C23_EnPassantCapture ==
  (pc = "listed" /\ en_passant_square \in Squares \ get_occupancy_map(State)) =>
    LET dir == IF to_move = WHITE THEN 1 ELSE -1
        passed == en_passant_square - 8 * dir
    IN \A sq \in pieces[to_move][PAWN] : \A u \in Undefined :
         (/\ Abs(File(sq) - File(en_passant_square)) = 1
          /\ Rank(en_passant_square) - Rank(sq) = dir) =>
           LET m == NormalMove(sq, en_passant_square, PAWN, to_move,
                               is_occupied(State, en_passant_square, u))
               after == transform(State, m)
           IN /\ passed \notin after.pieces[1 - to_move][PAWN]
              /\ PieceCount(after.pieces) = PieceCount(pieces) - 1

====
